---- MODULE Spec2Model ----
(***************************************************************************)
(* Sealed-bid auction chaincode (smart-contract/auction.go and             *)
(* smart-contract/auctionQueries.go).                                      *)
(*                                                                         *)
(* The state is the world state of one channel: the public record stored  *)
(* under an auction ID, the implicit private data collection of every     *)
(* organization, and the state-based endorsement policy of the auction    *)
(* key.  Every chaincode function is an operator that computes, from the  *)
(* current world state and its inputs, the error it returns and the world *)
(* state it leaves; one action per function commits that outcome.  A      *)
(* function that returns an error writes nothing.                         *)
(***************************************************************************)
EXTENDS Integers, Sequences, FiniteSets, TLC

(***************************************************************************)
(* Bounds of the model.                                                    *)
(***************************************************************************)
\* number of transaction IDs a bid can be stored or looked up under
MaxTx == 2
\* highest bid price; the lowest is -1 (Price is a signed Go int)
MaxPrice == 1
\* transactions endorsed and not yet validated, in the concurrent specification
MaxInFlight == 2
\* committed writes of one auction key, in the concurrent specification
MaxVersion == 4

Orgs == {"OrgX", "OrgY"}
Clients == {"s", "c"}
AuctionIDs == {"A1"}
Items == {"widget"}
TxIDs == 1..MaxTx
Prices == (0 - 1)..MaxPrice

\* MSP ID of each client identity (ctx.GetClientIdentity().GetMSPID())
GetMSPID(client) == IF client = "s" THEN "OrgX" ELSE "OrgY"

OrgIdx(o) == IF o = "OrgX" THEN 1 ELSE 2
ClientIdx(c) == IF c = "s" THEN 1 ELSE 2

\* the JSON documents a caller can pass as transient "bid"
Payloads == {[Price |-> n, Org |-> GetMSPID(c), Bidder |-> c] : n \in Prices, c \in Clients}

\* the bids a client stores: its own (the bidder is the client, the org its org)
OwnBids(client) == {j \in Payloads : j.Bidder = client}

VARIABLES
    ledger,       \* public world state: auction ID -> Auction (absent: not in DOMAIN)
    privateData,  \* org -> implicit collection of that org: bid key -> bid JSON
    endorsers,    \* auction ID -> orgs of the key's state-based endorsement policy
    version,      \* auction ID -> number of committed writes of the key
    inflight      \* the endorsed transactions waiting for validation

vars == <<ledger, privateData, endorsers, version, inflight>>

(***************************************************************************)
(* Go values.                                                              *)
(***************************************************************************)
\* a nil byte slice, and the empty string / empty map
Nil == <<>>
EmptyMap == <<>>

\* m[k] = v on a Go map
MapPut(m, k, v) == [x \in (DOMAIN m) \cup {k} |-> IF x = k THEN v ELSE m[x]]

\* fmt.Sprintf("%x", bytes): two hex digits per byte, "" for nil
Hex(bytes) ==
    [i \in 1..(2 * Len(bytes)) |->
        IF i % 2 = 1 THEN bytes[(i + 1) \div 2] \div 16
                     ELSE bytes[i \div 2] % 16]

\* every order in which a range over a Go map can visit its keys
Orders(S) ==
    {f \in [1..Cardinality(S) -> S] : \A i, j \in DOMAIN f : i # j => f[i] # f[j]}


(***************************************************************************)
(* Stub and helper functions the chaincode calls.                          *)
(***************************************************************************)
\* ctx.GetStub().CreateCompositeKey(bidKeyType, {auctionID, txID})
CreateCompositeKey(objectType, attributes) == <<objectType>> \o attributes

\* ctx.GetStub().NewECPrimeGroupKey(bidKeyType, {auctionID, txID}): the same
\* derivation, so that the public and the private namespace agree on the key
NewECPrimeGroupKey(objectType, attributes) == <<objectType>> \o attributes

bidKeyType == "bid"

BidKeys == {CreateCompositeKey(bidKeyType, <<a, t>>) : a \in AuctionIDs, t \in TxIDs}

\* the org whose implicit collection getCollectionName(ctx) names: the client's
getCollectionName(client) == GetMSPID(client)

\* verifyClientOrgMatchesPeerOrg(ctx): TRUE when it returns no error
verifyClientOrgMatchesPeerOrg(client, peerMSPID) == GetMSPID(client) = peerMSPID

\* contains(Orgs, clientOrgID)
contains(sli, str) == \E i \in DOMAIN sli : sli[i] = str

\* the commitment to a bid JSON: a deterministic, binding function of the bytes
\* (price as a two's complement byte, org, bidder)
PCommit(bidJSON) ==
    <<(bidJSON.Price + 256) % 256, OrgIdx(bidJSON.Org), ClientIdx(bidJSON.Bidder)>>

\* ctx.GetStub().VectorPCommit(collection, bidKey): the commitment to the bid
\* stored at bidKey in the collection, nil when nothing is stored there
VectorPCommit(collection, bidKey) ==
    IF bidKey \in DOMAIN privateData[collection]
    THEN PCommit(privateData[collection][bidKey])
    ELSE Nil

\* RPVerify(RPProve(bidCommitment)): the committed price lies in [0, 2^7)
RPVerify(bidCommitment) == bidCommitment[1] < 128

\* GetTxID() of a Bid transaction: a transaction ID no stored bid uses yet
FreshTxIDs ==
    LET used == {t \in TxIDs : \E o \in Orgs, a \in AuctionIDs :
                     CreateCompositeKey(bidKeyType, <<a, t>>) \in DOMAIN privateData[o]}
        free == TxIDs \ used
    IN  {t \in free : \A u \in free : t <= u}

(***************************************************************************)
(* The outcome of a chaincode function: the error it returns ("nil" for    *)
(* none), what it logs, and the world state after it.                      *)
(***************************************************************************)
\* return fmt.Errorf(...): nothing is written
Return(err) ==
    [err |-> err, log |-> "", ledger |-> ledger, privateData |-> privateData,
     endorsers |-> endorsers]

\* return nil after PutState(auctionID, auction)
PutState(auctionID, auction, log) ==
    [err |-> "nil", log |-> log, ledger |-> MapPut(ledger, auctionID, auction),
     privateData |-> privateData, endorsers |-> endorsers]

TypeOK ==
    /\ DOMAIN ledger \subseteq AuctionIDs
    /\ \A a \in DOMAIN ledger :
          /\ ledger[a].Status \in {"open", "closed", "ended"}
          /\ ledger[a].Seller \in Clients
          /\ DOMAIN ledger[a].PrivateBids \subseteq BidKeys
          /\ DOMAIN ledger[a].RevealedBids \subseteq BidKeys
    /\ \A o \in Orgs : DOMAIN privateData[o] \subseteq BidKeys
    /\ version \in [AuctionIDs -> 0..MaxVersion]
    /\ Cardinality(inflight) <= MaxInFlight

Init ==
    /\ ledger = EmptyMap
    /\ privateData = [o \in Orgs |-> EmptyMap]
    /\ endorsers = EmptyMap
    /\ version = [a \in AuctionIDs |-> 0]
    /\ inflight = {}

(***************************************************************************)
(* CreateAuction: the submitting client becomes the seller.                *)
(***************************************************************************)
CreateAuction(clientID, auctionID, itemsold) ==
    LET clientOrgID == GetMSPID(clientID)
        auction == [Type         |-> "auction",
                    ItemSold     |-> itemsold,
                    Price        |-> 0,
                    Seller       |-> clientID,
                    Orgs         |-> <<clientOrgID>>,
                    PrivateBids  |-> EmptyMap,
                    RevealedBids |-> EmptyMap,
                    Winner       |-> "",
                    Status       |-> "open"]
    IN  \* setAssetStateBasedEndorsement(ctx, auctionID, clientOrgID)
        [PutState(auctionID, auction, "") EXCEPT
            !.endorsers = MapPut(endorsers, auctionID, {clientOrgID})]

(***************************************************************************)
(* Bid: store the transient bid in the collection of the client's org,     *)
(* under the key of the transaction's ID.                                  *)
(***************************************************************************)
\* Bid refusing a bid for an auction that is not open
Bid_OpenOnly(clientID, peerMSPID, auctionID, BidJSON, txID) ==
    LET collection == getCollectionName(clientID)
        bidKey == CreateCompositeKey(bidKeyType, <<auctionID, txID>>)
    IN  IF auctionID \in DOMAIN ledger /\ ledger[auctionID].Status # "open"
        THEN Return("cannot join closed or ended auction")
        ELSE IF ~verifyClientOrgMatchesPeerOrg(clientID, peerMSPID)
        THEN Return("Cannot store bid on this peer, not a member of this org")
        ELSE [Return("nil") EXCEPT
                 !.privateData[collection] = MapPut(@, bidKey, BidJSON)]

Bid(clientID, peerMSPID, auctionID, BidJSON, txID) ==
    LET collection == getCollectionName(clientID)
        bidKey == CreateCompositeKey(bidKeyType, <<auctionID, txID>>)
    IN  IF ~verifyClientOrgMatchesPeerOrg(clientID, peerMSPID)
        THEN Return("Cannot store bid on this peer, not a member of this org")
        ELSE [Return("nil") EXCEPT
                 !.privateData[collection] = MapPut(@, bidKey, BidJSON)]

(***************************************************************************)
(* SubmitBid: add the commitment to the stored bid to the auction.         *)
(***************************************************************************)
\* SubmitBid refusing a client of another org than the peer's, as Bid does
SubmitBid_PeerOrgOnly(clientID, peerMSPID, auctionID, txID) ==
    LET clientOrgID == GetMSPID(clientID)
    IN  IF ~verifyClientOrgMatchesPeerOrg(clientID, peerMSPID)
        THEN Return("Cannot store bid on this peer, not a member of this org")
        ELSE IF auctionID \notin DOMAIN ledger
        THEN Return("auction does not exist")
        ELSE
        LET auction == ledger[auctionID]
            collection == getCollectionName(clientID)
            bidKey == NewECPrimeGroupKey(bidKeyType, <<auctionID, txID>>)
            bidCommitment == VectorPCommit(collection, bidKey)
            NewCommitment == [Org |-> clientOrgID, Commitment |-> Hex(bidCommitment)]
            bidders == MapPut(auction.PrivateBids, bidKey, NewCommitment)
            isNewOrg == ~contains(auction.Orgs, clientOrgID)
            newOrgs == IF isNewOrg THEN Append(auction.Orgs, clientOrgID)
                                   ELSE auction.Orgs
        IN  IF auction.Status # "open"
            THEN Return("cannot join closed or ended auction")
            ELSE [PutState(auctionID,
                           [auction EXCEPT !.PrivateBids = bidders, !.Orgs = newOrgs],
                           "")
                  EXCEPT \* addAssetStateBasedEndorsement(ctx, auctionID, clientOrgID)
                         !.endorsers = IF isNewOrg
                                       THEN [endorsers EXCEPT ![auctionID] =
                                                 @ \cup {clientOrgID}]
                                       ELSE endorsers]

SubmitBid(clientID, peerMSPID, auctionID, txID) ==
    LET clientOrgID == GetMSPID(clientID)
    IN  IF auctionID \notin DOMAIN ledger
        THEN Return("auction does not exist")
        ELSE
        LET auction == ledger[auctionID]
            collection == getCollectionName(clientID)
            bidKey == NewECPrimeGroupKey(bidKeyType, <<auctionID, txID>>)
            bidCommitment == VectorPCommit(collection, bidKey)
            NewCommitment == [Org |-> clientOrgID, Commitment |-> Hex(bidCommitment)]
            bidders == MapPut(auction.PrivateBids, bidKey, NewCommitment)
            isNewOrg == ~contains(auction.Orgs, clientOrgID)
            newOrgs == IF isNewOrg THEN Append(auction.Orgs, clientOrgID)
                                   ELSE auction.Orgs
        IN  IF auction.Status # "open"
            THEN Return("cannot join closed or ended auction")
            ELSE [PutState(auctionID,
                           [auction EXCEPT !.PrivateBids = bidders, !.Orgs = newOrgs],
                           "")
                  EXCEPT \* addAssetStateBasedEndorsement(ctx, auctionID, clientOrgID)
                         !.endorsers = IF isNewOrg
                                       THEN [endorsers EXCEPT ![auctionID] =
                                                 @ \cup {clientOrgID}]
                                       ELSE endorsers]

(***************************************************************************)
(* RevealBid: after the close, add the revealed bid to the auction.        *)
(***************************************************************************)
\* check 1 with the status test dropped
RevealStatusOK_Any(Status) == TRUE

\* check 1: bids are revealed on a closed auction only
RevealStatusOK(Status) == Status = "closed"

\* RevealBid without check 3, the comparison with the commitment in the auction
RevealBid_NoAuctionCommitment(clientID, auctionID, txID, transientBidJSON) ==
    LET collection == getCollectionName(clientID)
        bidKey == NewECPrimeGroupKey(bidKeyType, <<auctionID, txID>>)
        bidCommitment == VectorPCommit(collection, bidKey)
    IN  IF bidCommitment = Nil
        THEN Return("bid commitment does not exist")
        ELSE IF auctionID \notin DOMAIN ledger
        THEN Return("auction does not exist")
        ELSE
        LET auction == ledger[auctionID]
            \* check 2: the commitment to the transient bid
            calculatedBidJSONCommitment == PCommit(transientBidJSON)
            \* check 4 only reports the failure
            log == IF ~RPVerify(bidCommitment) THEN "*****Range Proof FAILURE" ELSE ""
            NewBid == [Type   |-> bidKeyType,
                       Price  |-> transientBidJSON.Price,
                       Org    |-> transientBidJSON.Org,
                       Bidder |-> transientBidJSON.Bidder]
            revealedBids == MapPut(auction.RevealedBids, bidKey, NewBid)
        IN  IF auction.Seller # clientID
            THEN Return("bids can only be revealed by seller")
            ELSE IF ~RevealStatusOK(auction.Status)
            THEN Return("cannot reveal bid for open or ended auction")
            ELSE IF calculatedBidJSONCommitment # bidCommitment
            THEN Return("does not match commitment in ledger")
            ELSE IF transientBidJSON.Bidder # clientID
            THEN [Return("Permission denied, not the owner of the bid") EXCEPT
                     !.log = log]
            ELSE PutState(auctionID, [auction EXCEPT !.RevealedBids = revealedBids], log)

\* RevealBid without the comparison of the caller with the seller
RevealBid_AnyCaller(clientID, auctionID, txID, transientBidJSON) ==
    LET collection == getCollectionName(clientID)
        bidKey == NewECPrimeGroupKey(bidKeyType, <<auctionID, txID>>)
        bidCommitment == VectorPCommit(collection, bidKey)
    IN  IF bidCommitment = Nil
        THEN Return("bid commitment does not exist")
        ELSE IF auctionID \notin DOMAIN ledger
        THEN Return("auction does not exist")
        ELSE
        LET auction == ledger[auctionID]
            \* check 2: the commitment to the transient bid
            calculatedBidJSONCommitment == PCommit(transientBidJSON)
            \* check 3: bidders[bidKey].Commitment, "" when the key is absent
            bidders == auction.PrivateBids
            privateBidCommitmentString ==
                IF bidKey \in DOMAIN bidders THEN bidders[bidKey].Commitment ELSE Nil
            onChainBidCommitmentString == Hex(bidCommitment)
            \* check 4 only reports the failure
            log == IF ~RPVerify(bidCommitment) THEN "*****Range Proof FAILURE" ELSE ""
            NewBid == [Type   |-> bidKeyType,
                       Price  |-> transientBidJSON.Price,
                       Org    |-> transientBidJSON.Org,
                       Bidder |-> transientBidJSON.Bidder]
            revealedBids == MapPut(auction.RevealedBids, bidKey, NewBid)
        IN  IF ~RevealStatusOK(auction.Status)
            THEN Return("cannot reveal bid for open or ended auction")
            ELSE IF calculatedBidJSONCommitment # bidCommitment
            THEN Return("does not match commitment in ledger")
            ELSE IF privateBidCommitmentString # onChainBidCommitmentString
            THEN Return("does not match commitment in auction")
            ELSE IF transientBidJSON.Bidder # clientID
            THEN [Return("Permission denied, not the owner of the bid") EXCEPT
                     !.log = log]
            ELSE PutState(auctionID, [auction EXCEPT !.RevealedBids = revealedBids], log)

RevealBid(clientID, auctionID, txID, transientBidJSON) ==
    LET collection == getCollectionName(clientID)
        bidKey == NewECPrimeGroupKey(bidKeyType, <<auctionID, txID>>)
        bidCommitment == VectorPCommit(collection, bidKey)
    IN  IF bidCommitment = Nil
        THEN Return("bid commitment does not exist")
        ELSE IF auctionID \notin DOMAIN ledger
        THEN Return("auction does not exist")
        ELSE
        LET auction == ledger[auctionID]
            \* check 2: the commitment to the transient bid
            calculatedBidJSONCommitment == PCommit(transientBidJSON)
            \* check 3: bidders[bidKey].Commitment, "" when the key is absent
            bidders == auction.PrivateBids
            privateBidCommitmentString ==
                IF bidKey \in DOMAIN bidders THEN bidders[bidKey].Commitment ELSE Nil
            onChainBidCommitmentString == Hex(bidCommitment)
            \* check 4 only reports the failure
            log == IF ~RPVerify(bidCommitment) THEN "*****Range Proof FAILURE" ELSE ""
            NewBid == [Type   |-> bidKeyType,
                       Price  |-> transientBidJSON.Price,
                       Org    |-> transientBidJSON.Org,
                       Bidder |-> transientBidJSON.Bidder]
            revealedBids == MapPut(auction.RevealedBids, bidKey, NewBid)
        IN  IF auction.Seller # clientID
            THEN Return("bids can only be revealed by seller")
            ELSE IF ~RevealStatusOK(auction.Status)
            THEN Return("cannot reveal bid for open or ended auction")
            ELSE IF calculatedBidJSONCommitment # bidCommitment
            THEN Return("does not match commitment in ledger")
            ELSE IF privateBidCommitmentString # onChainBidCommitmentString
            THEN Return("does not match commitment in auction")
            ELSE IF transientBidJSON.Bidder # clientID
            THEN [Return("Permission denied, not the owner of the bid") EXCEPT
                     !.log = log]
            ELSE PutState(auctionID, [auction EXCEPT !.RevealedBids = revealedBids], log)

(***************************************************************************)
(* CloseAuction: the seller closes the auction.                            *)
(***************************************************************************)
\* CloseAuction without the access control
CloseAuction_AnyCaller(clientID, auctionID) ==
    IF auctionID \notin DOMAIN ledger
    THEN Return("auction does not exist")
    ELSE
    LET auction == ledger[auctionID]
    IN  IF auction.Status # "open"
        THEN Return("cannot close auction that is not open")
        ELSE PutState(auctionID, [auction EXCEPT !.Status = "closed"], "")

CloseAuction(clientID, auctionID) ==
    IF auctionID \notin DOMAIN ledger
    THEN Return("auction does not exist")
    ELSE
    LET auction == ledger[auctionID]
    IN  IF auction.Seller # clientID
        THEN Return("auction can only be closed by seller")
        ELSE IF auction.Status # "open"
        THEN Return("cannot close auction that is not open")
        ELSE PutState(auctionID, [auction EXCEPT !.Status = "closed"], "")

(***************************************************************************)
(* checkForHigherBid (auctionQueries.go): the range over bidders, visited *)
(* in the order given, from position i with the error found so far.       *)
(***************************************************************************)
RECURSIVE checkForHigherBidLoop(_, _, _, _, _, _, _)
checkForHigherBidLoop(order, i, error, peerMSPID, auctionPrice, revealedBidders, bidders) ==
    IF i > Len(order)
    THEN error
    ELSE
    LET bidKey == order[i]
        privateBid == bidders[bidKey]
        collection == privateBid.Org
    IN  IF bidKey \in DOMAIN revealedBidders
        THEN checkForHigherBidLoop(order, i + 1, error, peerMSPID, auctionPrice,
                                   revealedBidders, bidders)
        ELSE IF privateBid.Org = peerMSPID
        THEN IF bidKey \notin DOMAIN privateData[collection]
             THEN "bid does not exist"
             ELSE checkForHigherBidLoop(order, i + 1,
                      IF privateData[collection][bidKey].Price > auctionPrice
                      THEN "Cannot close auction, bidder has a higher price"
                      ELSE error,
                      peerMSPID, auctionPrice, revealedBidders, bidders)
        ELSE IF VectorPCommit(collection, bidKey) = Nil
             THEN "bid Commitment does not exist"
             ELSE checkForHigherBidLoop(order, i + 1, error, peerMSPID, auctionPrice,
                                        revealedBidders, bidders)

\* checkForHigherBid taking no bid for a bid of the peer's own org
checkForHigherBid_NoLocalBid(order, peerMSPID, auctionPrice, revealedBidders, bidders) ==
    checkForHigherBidLoop(order, 1, "nil", "", auctionPrice, revealedBidders, bidders)

checkForHigherBid(order, peerMSPID, auctionPrice, revealedBidders, bidders) ==
    checkForHigherBidLoop(order, 1, "nil", peerMSPID, auctionPrice, revealedBidders, bidders)

(***************************************************************************)
(* EndAuction: the range over the revealed bids that picks the winner,    *)
(* then the check for a higher bid, then the write.  The two ranges visit *)
(* their maps in the orders revealedOrder and biddersOrder.               *)
(***************************************************************************)
RECURSIVE HighestBid(_, _, _, _)
HighestBid(order, i, revealedBidMap, auction) ==
    IF i > Len(order)
    THEN auction
    ELSE LET bid == revealedBidMap[order[i]]
         IN  HighestBid(order, i + 1, revealedBidMap,
                 IF bid.Price > auction.Price
                 THEN [auction EXCEPT !.Winner = bid.Bidder, !.Price = bid.Price]
                 ELSE auction)

EndAuction(clientID, peerMSPID, auctionID, revealedOrder, biddersOrder) ==
    IF auctionID \notin DOMAIN ledger
    THEN Return("auction does not exist")
    ELSE
    LET auction == ledger[auctionID]
        revealedBidMap == auction.RevealedBids
    IN  IF auction.Seller # clientID
        THEN Return("auction can only be ended by seller")
        ELSE IF auction.Status # "closed"
        THEN Return("Can only end a closed auction")
        ELSE IF Cardinality(DOMAIN auction.RevealedBids) = 0
        THEN Return("No bids have been revealed, cannot end auction")
        ELSE LET decided == HighestBid(revealedOrder, 1, revealedBidMap, auction)
                 err == checkForHigherBid(biddersOrder, peerMSPID, decided.Price,
                                          decided.RevealedBids, decided.PrivateBids)
             IN  IF err # "nil"
                 THEN Return(err)
                 ELSE PutState(auctionID, [decided EXCEPT !.Status = "ended"], "")

\* the orders in which EndAuction can range over the two maps of an auction
RevealedOrders(auctionID) ==
    IF auctionID \in DOMAIN ledger
    THEN Orders(DOMAIN ledger[auctionID].RevealedBids) ELSE {<<>>}
BiddersOrders(auctionID) ==
    IF auctionID \in DOMAIN ledger
    THEN Orders(DOMAIN ledger[auctionID].PrivateBids) ELSE {<<>>}

(***************************************************************************)
(* Transactions: any client invokes any function, on a peer of any         *)
(* organization.  The writes of a function that returns nil are committed; *)
(* an invocation that returns an error is no transaction and leaves the    *)
(* world state as it is.  In Spec the transactions run one after the       *)
(* other: each is endorsed and committed in one step, nothing is ever in   *)
(* flight and no version is compared.                                      *)
(***************************************************************************)
Commit(outcome) ==
    /\ outcome.err = "nil"
    /\ ledger' = outcome.ledger
    /\ privateData' = outcome.privateData
    /\ endorsers' = outcome.endorsers
    /\ UNCHANGED <<version, inflight>>

CreateAuctionTx ==
    \E c \in Clients, a \in AuctionIDs :
        \E item \in Items : Commit(CreateAuction(c, a, item))

BidTx ==
    \E c \in Clients, p \in Orgs, a \in AuctionIDs, t \in FreshTxIDs :
        \E j \in OwnBids(c) : Commit(Bid(c, p, a, j, t))

SubmitBidTx ==
    \E c \in Clients, p \in Orgs, a \in AuctionIDs :
        \E t \in TxIDs : Commit(SubmitBid(c, p, a, t))

RevealBidTx ==
    \E c \in Clients, a \in AuctionIDs, t \in TxIDs :
        \E j \in Payloads : Commit(RevealBid(c, a, t, j))

CloseAuctionTx ==
    \E c \in Clients :
        \E a \in AuctionIDs : Commit(CloseAuction(c, a))

EndAuctionTx ==
    \E c \in Clients, p \in Orgs, a \in AuctionIDs :
        \E ro \in RevealedOrders(a), bo \in BiddersOrders(a) :
            Commit(EndAuction(c, p, a, ro, bo))

Next ==
    \/ CreateAuctionTx
    \/ BidTx
    \/ SubmitBidTx
    \/ RevealBidTx
    \/ CloseAuctionTx
    \/ EndAuctionTx

Spec == Init /\ [][Next]_vars

(***************************************************************************)
(* The concurrent specification.  A transaction is first endorsed: the     *)
(* function runs against the committed world state and its reads and       *)
(* writes are kept.  Later the ledger validates it: the writes are         *)
(* committed when what it read is still current, and the transaction is    *)
(* rejected otherwise.  Every function but CreateAuction reads the auction *)
(* key (QueryAuction) before it writes it; CreateAuction writes it without *)
(* reading it.  Bid writes only the private key of its own transaction ID, *)
(* which nothing in flight writes, and is committed in one step.           *)
(***************************************************************************)
\* the version recorded by a transaction that did not read the auction key
NoRead == 0 - 1

\* the endorsed transaction: the version of the auction key it read, the
\* private keys it read and found absent, and the record and endorsement
\* policy it writes
Proposal(fn, auctionID, absentRead, outcome) ==
    [fn          |-> fn,
     auctionID   |-> auctionID,
     readVersion |-> IF fn = "CreateAuction" THEN NoRead ELSE version[auctionID],
     absentRead  |-> absentRead,
     auction     |-> outcome.ledger[auctionID],
     endorsers   |-> outcome.endorsers[auctionID]]

Endorse(fn, auctionID, absentRead, outcome) ==
    /\ Cardinality(inflight) < MaxInFlight
    /\ outcome.err = "nil"
    /\ inflight' = inflight \cup {Proposal(fn, auctionID, absentRead, outcome)}
    /\ UNCHANGED <<ledger, privateData, endorsers, version>>

EndorseCreateAuction ==
    \E c \in Clients, a \in AuctionIDs :
        \E item \in Items : Endorse("CreateAuction", a, {}, CreateAuction(c, a, item))

\* SubmitBid reads the private key of the bid through VectorPCommit
EndorseSubmitBid ==
    \E c \in Clients, p \in Orgs, a \in AuctionIDs :
        \E t \in TxIDs :
            LET collection == getCollectionName(c)
                bidKey == NewECPrimeGroupKey(bidKeyType, <<a, t>>)
            IN  Endorse("SubmitBid", a,
                        IF bidKey \in DOMAIN privateData[collection]
                        THEN {} ELSE {<<collection, bidKey>>},
                        SubmitBid(c, p, a, t))

EndorseRevealBid ==
    \E c \in Clients, a \in AuctionIDs, t \in TxIDs :
        \E j \in Payloads : Endorse("RevealBid", a, {}, RevealBid(c, a, t, j))

EndorseCloseAuction ==
    \E c \in Clients :
        \E a \in AuctionIDs : Endorse("CloseAuction", a, {}, CloseAuction(c, a))

EndorseEndAuction ==
    \E c \in Clients, p \in Orgs, a \in AuctionIDs :
        \E ro \in RevealedOrders(a), bo \in BiddersOrders(a) :
            Endorse("EndAuction", a, {}, EndAuction(c, p, a, ro, bo))

\* what the transaction read is what is committed now
Valid(tx) ==
    /\ tx.readVersion \in {NoRead, version[tx.auctionID]}
    /\ \A r \in tx.absentRead : r[2] \notin DOMAIN privateData[r[1]]

Validate ==
    \E tx \in inflight :
        /\ Valid(tx)
        /\ version[tx.auctionID] < MaxVersion
        /\ ledger' = MapPut(ledger, tx.auctionID, tx.auction)
        /\ endorsers' = MapPut(endorsers, tx.auctionID, tx.endorsers)
        /\ version' = [version EXCEPT ![tx.auctionID] = @ + 1]
        /\ inflight' = inflight \ {tx}
        /\ UNCHANGED privateData

Invalidate ==
    \E tx \in inflight :
        /\ ~Valid(tx)
        /\ inflight' = inflight \ {tx}
        /\ UNCHANGED <<ledger, privateData, endorsers, version>>

NextMVCC ==
    \/ EndorseCreateAuction
    \/ BidTx
    \/ EndorseSubmitBid
    \/ EndorseRevealBid
    \/ EndorseCloseAuction
    \/ EndorseEndAuction
    \/ Validate
    \/ Invalidate

SpecMVCC == Init /\ [][NextMVCC]_vars

(***************************************************************************)
(* Vocabulary of the properties.                                           *)
(***************************************************************************)
StatusRank(status) ==
    CASE status = "open" -> 1 [] status = "closed" -> 2 [] OTHER -> 3

\* the keys committed to the auction and not revealed
Unrevealed(auction) == (DOMAIN auction.PrivateBids) \ (DOMAIN auction.RevealedBids)

\* the private plaintext bid behind a commitment, in the collection of its org
HasPrivateBid(auction, bidKey) ==
    bidKey \in DOMAIN privateData[auction.PrivateBids[bidKey].Org]
PrivateBid(auction, bidKey) == privateData[auction.PrivateBids[bidKey].Org][bidKey]

RevealedPrices(auction) ==
    {auction.RevealedBids[k].Price : k \in DOMAIN auction.RevealedBids}

IsHighestRevealed(auction, price) ==
    /\ price \in RevealedPrices(auction)
    /\ \A n \in RevealedPrices(auction) : n <= price

\* the outcomes EndAuction can have in the current state
EndAuctionOutcomes(clientID, peerMSPID, auctionID) ==
    {EndAuction(clientID, peerMSPID, auctionID, ro, bo) :
        ro \in RevealedOrders(auctionID), bo \in BiddersOrders(auctionID)}

\* the outcome leaves the public record as it is
NothingWritten(outcome) == outcome.ledger = ledger

(***************************************************************************)
(* C1: the stored status of an auction only progresses open -> closed ->   *)
(* ended; no step takes it back (or removes the record).                   *)
(***************************************************************************)
C1_StatusNeverRegresses ==
    [][\A a \in DOMAIN ledger :
          /\ a \in DOMAIN ledger'
          /\ StatusRank(ledger'[a].Status) >= StatusRank(ledger[a].Status)]_vars

(***************************************************************************)
(* C2: whenever EndAuction succeeds, no unrevealed committed bid, of any   *)
(* organization, has a private price above the price it stores as the      *)
(* winning price.                                                          *)
(***************************************************************************)
C2_NoHiddenBidOfAnyOrgExceedsPrice ==
    \A a \in DOMAIN ledger, c \in Clients, p \in Orgs :
        \A end \in EndAuctionOutcomes(c, p, a) :
            end.err = "nil" =>
                \A k \in Unrevealed(end.ledger[a]) :
                    HasPrivateBid(end.ledger[a], k) =>
                        PrivateBid(end.ledger[a], k).Price <= end.ledger[a].Price

(***************************************************************************)
(* C2 as amended: whenever EndAuction succeeds, every unrevealed committed *)
(* bid of the organization of the peer that executes it has its private    *)
(* plaintext stored, with a price not above the price EndAuction stores as *)
(* the winning price.                                                      *)
(***************************************************************************)
C2_NoHiddenLocalBidExceedsPrice ==
    \A a \in DOMAIN ledger, c \in Clients, p \in Orgs :
        \A end \in EndAuctionOutcomes(c, p, a) :
            end.err = "nil" =>
                \A k \in Unrevealed(end.ledger[a]) :
                    end.ledger[a].PrivateBids[k].Org = p =>
                        /\ HasPrivateBid(end.ledger[a], k)
                        /\ PrivateBid(end.ledger[a], k).Price <= end.ledger[a].Price

\* EndAuction succeeds on a peer whose org has an unrevealed committed bid at
\* the winning price, and stores a winner
C2_EndsOverHiddenLocalBid ==
    \E a \in DOMAIN ledger, c \in Clients, p \in Orgs :
        \E end \in EndAuctionOutcomes(c, p, a) :
            /\ end.err = "nil"
            /\ end.ledger[a].Status = "ended"
            /\ end.ledger[a].Winner # ""
            /\ \E k \in Unrevealed(end.ledger[a]) :
                  /\ end.ledger[a].PrivateBids[k].Org = p
                  /\ PrivateBid(end.ledger[a], k).Price = end.ledger[a].Price

(***************************************************************************)
(* C3: when EndAuction has succeeded, revealedBids is non-empty, the       *)
(* stored price is the highest revealed price and the stored winner is the *)
(* bidder of a revealed bid with that price.                               *)
(***************************************************************************)
C3_WinnerIsHighestRevealed ==
    \A a \in DOMAIN ledger :
        ledger[a].Status = "ended" =>
            /\ DOMAIN ledger[a].RevealedBids # {}
            /\ IsHighestRevealed(ledger[a], ledger[a].Price)
            /\ \E k \in DOMAIN ledger[a].RevealedBids :
                  /\ ledger[a].RevealedBids[k].Price = ledger[a].Price
                  /\ ledger[a].RevealedBids[k].Bidder = ledger[a].Winner

(***************************************************************************)
(* C4: EndAuction on a closed auction, executed on a peer whose own org    *)
(* has an unrevealed commitment with a private price above the highest     *)
(* revealed price, fails and leaves the record (status, winner, price)     *)
(* unchanged.                                                              *)
(***************************************************************************)
HiddenLocalBidAboveRevealed(auction, peerMSPID) ==
    \E k \in Unrevealed(auction) :
        /\ auction.PrivateBids[k].Org = peerMSPID
        /\ HasPrivateBid(auction, k)
        /\ \E top \in RevealedPrices(auction) :
              /\ IsHighestRevealed(auction, top)
              /\ PrivateBid(auction, k).Price > top

C4_EndFailsOnHiddenLocalHigherBid ==
    \A a \in DOMAIN ledger, c \in Clients, p \in Orgs :
        (ledger[a].Status = "closed" /\ HiddenLocalBidAboveRevealed(ledger[a], p))
        => \A end \in EndAuctionOutcomes(c, p, a) :
               end.err # "nil" /\ NothingWritten(end)

(***************************************************************************)
(* C5: on a closed auction, the reveal of a bid that was stored and        *)
(* submitted while the auction was open, by its bidder and with the        *)
(* committed payload, succeeds and adds the bid to revealedBids, also when *)
(* the bidder is not the seller.                                           *)
(***************************************************************************)
CommittedBy(auction, auctionID, txID, client, bidJSON) ==
    LET bidKey == CreateCompositeKey(bidKeyType, <<auctionID, txID>>)
        collection == getCollectionName(client)
    IN  /\ bidKey \in DOMAIN privateData[collection]
        /\ privateData[collection][bidKey] = bidJSON
        /\ bidJSON.Bidder = client
        /\ bidKey \in DOMAIN auction.PrivateBids
        /\ auction.PrivateBids[bidKey] =
               [Org |-> GetMSPID(client), Commitment |-> Hex(PCommit(bidJSON))]

C5_BidderRevealSucceeds ==
    \A c \in Clients, a \in DOMAIN ledger, t \in TxIDs, j \in Payloads :
        (/\ ledger[a].Status = "closed"
         /\ j.Price >= 0
         /\ CommittedBy(ledger[a], a, t, c, j))
        => LET reveal == RevealBid(c, a, t, j)
               bidKey == CreateCompositeKey(bidKeyType, <<a, t>>)
           IN  /\ reveal.err = "nil"
               /\ bidKey \in DOMAIN reveal.ledger[a].RevealedBids
               /\ reveal.ledger[a].RevealedBids[bidKey].Price = j.Price

(***************************************************************************)
(* C6: CloseAuction, RevealBid and EndAuction called by an identity that   *)
(* is not the seller recorded in the auction fail and leave the stored     *)
(* record unchanged, whatever the status of the auction.                   *)
(***************************************************************************)
C6_OnlySellerClosesRevealsEnds ==
    \A a \in DOMAIN ledger, c \in Clients :
        ledger[a].Seller # c =>
            /\ CloseAuction(c, a).err # "nil"
            /\ NothingWritten(CloseAuction(c, a))
            /\ \A t \in TxIDs, j \in Payloads :
                  LET reveal == RevealBid(c, a, t, j)
                  IN  reveal.err # "nil" /\ NothingWritten(reveal)
            /\ \A p \in Orgs : \A end \in EndAuctionOutcomes(c, p, a) :
                  /\ end.err # "nil"
                  /\ NothingWritten(end)

\* a client that is not the seller is refused all three: the close of an open
\* auction or, on a closed auction, the reveal of its own committed bid and
\* the end over a revealed bid
C6_StrangerRefused ==
    \E a \in DOMAIN ledger, c \in Clients :
        /\ ledger[a].Seller # c
        /\ \/ /\ ledger[a].Status = "open"
              /\ CloseAuction(c, a).err = "auction can only be closed by seller"
           \/ /\ ledger[a].Status = "closed"
              /\ DOMAIN ledger[a].RevealedBids # {}
              /\ \A p \in Orgs : \A end \in EndAuctionOutcomes(c, p, a) :
                    end.err = "auction can only be ended by seller"
              /\ \E t \in TxIDs, j \in Payloads :
                    /\ CommittedBy(ledger[a], a, t, c, j)
                    /\ RevealBid(c, a, t, j).err = "bids can only be revealed by seller"

(***************************************************************************)
(* C7: once the stored status is closed or ended, every SubmitBid fails    *)
(* and no step changes the commitments (PrivateBids) of the auction.       *)
(***************************************************************************)
C7_CommitmentsFrozenAfterClose ==
    /\ [](\A a \in DOMAIN ledger :
             ledger[a].Status \in {"closed", "ended"} =>
                 \A c \in Clients, p \in Orgs, t \in TxIDs :
                     SubmitBid(c, p, a, t).err # "nil")
    /\ [][\A a \in DOMAIN ledger :
             ledger[a].Status \in {"closed", "ended"} =>
                 /\ a \in DOMAIN ledger'
                 /\ ledger'[a].PrivateBids = ledger[a].PrivateBids]_vars

(***************************************************************************)
(* C8: Bid called for an auction whose stored status is closed or ended    *)
(* returns an error and stores no private bid.                             *)
(***************************************************************************)
C8_BidFailsAfterClose ==
    \A a \in DOMAIN ledger :
        ledger[a].Status # "open" =>
            \A c \in Clients, p \in Orgs, j \in Payloads, t \in FreshTxIDs :
                /\ Bid(c, p, a, j, t).err # "nil"
                /\ Bid(c, p, a, j, t).privateData = privateData

(***************************************************************************)
(* C8 as amended: Bid does not look at the auction.  Called by a client of *)
(* the executing peer's org it succeeds and stores the private bid in the  *)
(* collection of that org, also when the stored status is closed or ended; *)
(* called by a client of another org it fails and stores nothing.  It      *)
(* never writes the public record.                                         *)
(***************************************************************************)
C8_BidIgnoresStatus ==
    \A a \in AuctionIDs, c \in Clients, p \in Orgs, j \in Payloads, t \in FreshTxIDs :
        LET bid == Bid(c, p, a, j, t)
            bidKey == CreateCompositeKey(bidKeyType, <<a, t>>)
        IN  /\ NothingWritten(bid)
            /\ GetMSPID(c) = p =>
                  /\ bid.err = "nil"
                  /\ bid.privateData = [privateData EXCEPT ![p] = MapPut(@, bidKey, j)]
            /\ GetMSPID(c) # p =>
                  /\ bid.err # "nil"
                  /\ bid.privateData = privateData

\* Bid succeeds for an auction that is closed or ended
C8_BidStoredAfterClose ==
    \E a \in DOMAIN ledger, c \in Clients, p \in Orgs, j \in Payloads, t \in FreshTxIDs :
        /\ ledger[a].Status \in {"closed", "ended"}
        /\ Bid(c, p, a, j, t).err = "nil"
        /\ Bid(c, p, a, j, t).privateData # privateData

(***************************************************************************)
(* C9: revealedBids is non-empty only when the stored status is closed or  *)
(* ended, and RevealBid on an auction that is open or ended fails and adds *)
(* nothing.                                                                *)
(***************************************************************************)
C9_RevealOnlyWhileClosed ==
    \A a \in DOMAIN ledger :
        /\ DOMAIN ledger[a].RevealedBids # {} =>
               ledger[a].Status \in {"closed", "ended"}
        /\ ledger[a].Status # "closed" =>
               \A c \in Clients, t \in TxIDs, j \in Payloads :
                   LET reveal == RevealBid(c, a, t, j)
                   IN  reveal.err # "nil" /\ NothingWritten(reveal)

\* on an ended auction with a revealed bid, the seller's reveal of its other
\* committed bid is refused because of the status
C9_RevealRefusedOnEnded ==
    \E a \in DOMAIN ledger, t \in TxIDs, j \in Payloads :
        /\ ledger[a].Status = "ended"
        /\ DOMAIN ledger[a].RevealedBids # {}
        /\ CreateCompositeKey(bidKeyType, <<a, t>>) \in Unrevealed(ledger[a])
        /\ CommittedBy(ledger[a], a, t, ledger[a].Seller, j)
        /\ RevealBid(ledger[a].Seller, a, t, j).err =
               "cannot reveal bid for open or ended auction"

(***************************************************************************)
(* C10: while the stored status is open or closed the stored winner is     *)
(* empty and the stored price is 0; winner and price are written only by   *)
(* the step that ends the auction and never change once it has ended.      *)
(***************************************************************************)
C10_WinnerSetOnceAtEnd ==
    /\ [](\A a \in DOMAIN ledger :
             ledger[a].Status \in {"open", "closed"} =>
                 (ledger[a].Winner = "" /\ ledger[a].Price = 0))
    /\ [][\A a \in DOMAIN ledger :
             /\ a \in DOMAIN ledger'
             /\ (ledger'[a].Winner # ledger[a].Winner \/ ledger'[a].Price # ledger[a].Price)
                => (ledger[a].Status = "closed" /\ ledger'[a].Status = "ended")
             /\ ledger[a].Status = "ended"
                => (ledger'[a].Winner = ledger[a].Winner /\
                    ledger'[a].Price = ledger[a].Price)]_vars

(***************************************************************************)
(* C11: once the stored status is ended, no step changes the auction       *)
(* record (winner, price, status, commitments, revealed bids,              *)
(* organizations), and an EndAuction call on it fails with the state       *)
(* error.                                                                  *)
(***************************************************************************)
C11_EndedRecordFrozen ==
    /\ [](\A a \in DOMAIN ledger :
             ledger[a].Status = "ended" =>
                 \A c \in Clients, p \in Orgs : \A end \in EndAuctionOutcomes(c, p, a) :
                     /\ end.err # "nil"
                     /\ c = ledger[a].Seller => end.err = "Can only end a closed auction")
    /\ [][\A a \in DOMAIN ledger :
             ledger[a].Status = "ended" =>
                 (a \in DOMAIN ledger' /\ ledger'[a] = ledger[a])]_vars

(***************************************************************************)
(* C12: a RevealBid whose range proof over the committed value does not    *)
(* verify returns an error and adds no bid to revealedBids, whatever the   *)
(* other checks say.                                                       *)
(***************************************************************************)
C12_RangeProofFailureAborts ==
    \A c \in Clients, a \in DOMAIN ledger, t \in TxIDs, j \in Payloads :
        LET bidKey == NewECPrimeGroupKey(bidKeyType, <<a, t>>)
            bidCommitment == VectorPCommit(getCollectionName(c), bidKey)
            reveal == RevealBid(c, a, t, j)
        IN  (bidCommitment # Nil /\ ~RPVerify(bidCommitment)) =>
                /\ reveal.err # "nil"
                /\ reveal.ledger[a].RevealedBids = ledger[a].RevealedBids

(***************************************************************************)
(* C13: once an auction is created, no step changes its seller or its     *)
(* itemSold, a later CreateAuction with the same auction ID by another     *)
(* identity included.                                                      *)
(***************************************************************************)
C13_SellerAndItemImmutable ==
    [][\A a \in DOMAIN ledger :
          /\ a \in DOMAIN ledger'
          /\ ledger'[a].Seller = ledger[a].Seller
          /\ ledger'[a].ItemSold = ledger[a].ItemSold]_vars

(***************************************************************************)
(* C14: Bid and SubmitBid called by a client whose org is not the org of   *)
(* the executing peer fail, store no private bid and add no commitment.    *)
(***************************************************************************)
C14_BidAndSubmitFailOnForeignPeer ==
    \A a \in DOMAIN ledger, c \in Clients, p \in Orgs :
        GetMSPID(c) # p =>
            /\ \A j \in Payloads, t \in FreshTxIDs :
                  /\ Bid(c, p, a, j, t).err # "nil"
                  /\ Bid(c, p, a, j, t).privateData = privateData
            /\ \A t \in TxIDs :
                  /\ SubmitBid(c, p, a, t).err # "nil"
                  /\ SubmitBid(c, p, a, t).ledger[a].PrivateBids = ledger[a].PrivateBids

(***************************************************************************)
(* C14 as amended: Bid called by a client whose org is not the org of the  *)
(* executing peer fails and stores no private bid.  SubmitBid does not     *)
(* compare the two orgs: called so on an open auction it succeeds and      *)
(* stores, at the bid key, the commitment under the client's org; it fails *)
(* and writes nothing only when the auction is not open.                   *)
(***************************************************************************)
C14_OnlyBidChecksPeerOrg ==
    \A a \in DOMAIN ledger, c \in Clients, p \in Orgs :
        GetMSPID(c) # p =>
            /\ \A j \in Payloads, t \in FreshTxIDs :
                  LET bid == Bid(c, p, a, j, t)
                  IN  bid.err # "nil" /\ bid.privateData = privateData
            /\ \A t \in TxIDs :
                  LET submit == SubmitBid(c, p, a, t)
                      bidKey == NewECPrimeGroupKey(bidKeyType, <<a, t>>)
                  IN  IF ledger[a].Status = "open"
                      THEN /\ submit.err = "nil"
                           /\ bidKey \in DOMAIN submit.ledger[a].PrivateBids
                           /\ submit.ledger[a].PrivateBids[bidKey] =
                                  [Org |-> GetMSPID(c),
                                   Commitment |->
                                       Hex(VectorPCommit(getCollectionName(c), bidKey))]
                      ELSE /\ submit.err # "nil"
                           /\ NothingWritten(submit)

\* on an open auction, a client with a stored bid submits it on a peer of
\* another org, and a commitment the auction did not have is added
C14_SubmittedOnForeignPeer ==
    \E a \in DOMAIN ledger, c \in Clients, p \in Orgs, t \in TxIDs :
        LET bidKey == NewECPrimeGroupKey(bidKeyType, <<a, t>>)
        IN  /\ GetMSPID(c) # p
            /\ ledger[a].Status = "open"
            /\ bidKey \in DOMAIN privateData[getCollectionName(c)]
            /\ bidKey \notin DOMAIN ledger[a].PrivateBids
            /\ SubmitBid(c, p, a, t).err = "nil"
            /\ bidKey \in DOMAIN SubmitBid(c, p, a, t).ledger[a].PrivateBids

(***************************************************************************)
(* C15: no step removes an organization from the auction's organizations  *)
(* list; in every reachable state the list holds the seller's org and the *)
(* org of every stored commitment, has no duplicates, and the orgs of the *)
(* auction key's endorsement policy are exactly the orgs of the list.     *)
(***************************************************************************)
OrgSet(auction) == {auction.Orgs[i] : i \in DOMAIN auction.Orgs}

OrgsListSound(auctionID) ==
    LET auction == ledger[auctionID]
    IN  /\ contains(auction.Orgs, GetMSPID(auction.Seller))
        /\ \A k \in DOMAIN auction.PrivateBids :
              contains(auction.Orgs, auction.PrivateBids[k].Org)
        /\ \A i, j \in DOMAIN auction.Orgs : i # j => auction.Orgs[i] # auction.Orgs[j]
        /\ auctionID \in DOMAIN endorsers
        /\ endorsers[auctionID] = OrgSet(auction)

C15_OrganizationsOnlyGrow ==
    /\ [](\A a \in DOMAIN ledger : OrgsListSound(a))
    /\ [][\A a \in DOMAIN ledger :
             /\ a \in DOMAIN ledger'
             /\ OrgSet(ledger[a]) \subseteq OrgSet(ledger'[a])]_vars

(***************************************************************************)
(* C16: of two transactions that read the same version of an auction      *)
(* record and both write it, the one validated second is rejected; so no   *)
(* committed write drops a commitment or a revealed bid that an earlier    *)
(* committed transaction added, and no SubmitBid is committed on an        *)
(* auction that a committed CloseAuction has closed.                       *)
(***************************************************************************)
\* this step commits the writes of tx
Committed(tx) ==
    /\ tx \in inflight
    /\ tx \notin inflight'
    /\ version'[tx.auctionID] = version[tx.auctionID] + 1

C16_StaleWriteRejectedNothingLost ==
    [][/\ \A tx1, tx2 \in inflight :
             (/\ tx1 # tx2
              /\ tx1.auctionID = tx2.auctionID
              /\ tx1.readVersion # NoRead
              /\ tx1.readVersion = tx2.readVersion
              /\ Committed(tx1))
             => (tx2 \in inflight' /\ ~Valid(tx2)')
       /\ \A a \in DOMAIN ledger :
             /\ a \in DOMAIN ledger'
             /\ DOMAIN ledger[a].PrivateBids \subseteq DOMAIN ledger'[a].PrivateBids
             /\ DOMAIN ledger[a].RevealedBids \subseteq DOMAIN ledger'[a].RevealedBids
       /\ \A tx \in inflight :
             (/\ tx.fn = "SubmitBid"
              /\ tx.auctionID \in DOMAIN ledger
              /\ ledger[tx.auctionID].Status # "open")
             => ~Committed(tx)]_vars

(***************************************************************************)
(* C17: in every reachable state every key of revealedBids is a key of    *)
(* the auction's commitments (PrivateBids), and RevealBid for a bid key    *)
(* that has no entry in the commitments fails and adds nothing.           *)
(***************************************************************************)
C17_RevealedKeysAreCommitted ==
    \A a \in DOMAIN ledger :
        /\ DOMAIN ledger[a].RevealedBids \subseteq DOMAIN ledger[a].PrivateBids
        /\ \A c \in Clients, t \in TxIDs, j \in Payloads :
              NewECPrimeGroupKey(bidKeyType, <<a, t>>) \notin DOMAIN ledger[a].PrivateBids
              => LET reveal == RevealBid(c, a, t, j)
                 IN  reveal.err # "nil" /\ NothingWritten(reveal)

\* on a closed auction the seller reveals, with the stored payload, a bid of
\* its own that it never submitted, and is refused by check 3
C17_UnsubmittedBidRefused ==
    \E a \in DOMAIN ledger, t \in TxIDs, j \in Payloads :
        LET bidKey == NewECPrimeGroupKey(bidKeyType, <<a, t>>)
            seller == ledger[a].Seller
        IN  /\ ledger[a].Status = "closed"
            /\ bidKey \notin DOMAIN ledger[a].PrivateBids
            /\ bidKey \in DOMAIN privateData[getCollectionName(seller)]
            /\ privateData[getCollectionName(seller)][bidKey] = j
            /\ j.Bidder = seller
            /\ RevealBid(seller, a, t, j).err = "does not match commitment in auction"

(***************************************************************************)
(* C18: in a state where two or more revealed bids share the highest       *)
(* revealed price, all executions of EndAuction that succeed store the     *)
(* same winner, and it is the bidder of one of those bids (the one         *)
(* revealed first is one of them), in whatever order the revealed bids     *)
(* are visited and on whatever peer.                                       *)
(***************************************************************************)
TiedHighest(auction) ==
    {k \in DOMAIN auction.RevealedBids :
        IsHighestRevealed(auction, auction.RevealedBids[k].Price)}

\* the records the executions of EndAuction that succeed store
EndedRecords(auctionID) ==
    {end.ledger[auctionID] :
        end \in {e \in UNION {EndAuctionOutcomes(ledger[auctionID].Seller, p, auctionID) :
                                p \in Orgs} : e.err = "nil"}}

C18_TieBreakIsDeterministic ==
    \A a \in DOMAIN ledger :
        Cardinality(TiedHighest(ledger[a])) >= 2 =>
            /\ \A r1, r2 \in EndedRecords(a) : r1.Winner = r2.Winner
            /\ \A r \in EndedRecords(a) :
                  \E k \in TiedHighest(ledger[a]) :
                      r.Winner = ledger[a].RevealedBids[k].Bidder

(***************************************************************************)
(* C19: when EndAuction fails on a closed auction because an unrevealed    *)
(* bid of the executing peer's org is above every revealed bid, the        *)
(* auction stays closed and that bid can be revealed by its bidder with    *)
(* the stored payload; and once the highest such bid has been revealed,    *)
(* EndAuction by the seller on that peer succeeds and stores the bid's     *)
(* bidder and price as winner and price.                                   *)
(***************************************************************************)
\* the unrevealed bids of org peerMSPID whose stored price is above every
\* revealed price
HiddenLocalBidsAbove(auction, peerMSPID) ==
    {k \in Unrevealed(auction) :
        /\ auction.PrivateBids[k].Org = peerMSPID
        /\ HasPrivateBid(auction, k)
        /\ \A n \in RevealedPrices(auction) : PrivateBid(auction, k).Price > n}

\* EndAuction by the seller on a peer of peerMSPID fails for a higher bid
EndFailsForHigherBid(auctionID, peerMSPID) ==
    /\ ledger[auctionID].Status = "closed"
    /\ DOMAIN ledger[auctionID].RevealedBids # {}
    /\ \A end \in EndAuctionOutcomes(ledger[auctionID].Seller, peerMSPID, auctionID) :
          end.err = "Cannot close auction, bidder has a higher price"

C19_CorrectiveRevealEndsAuction ==
    /\ [](\A a \in DOMAIN ledger, p \in Orgs, t \in TxIDs :
             LET bidKey == NewECPrimeGroupKey(bidKeyType, <<a, t>>)
             IN  (EndFailsForHigherBid(a, p) /\ bidKey \in HiddenLocalBidsAbove(ledger[a], p))
                 => LET bid == PrivateBid(ledger[a], bidKey)
                        reveal == RevealBid(bid.Bidder, a, t, bid)
                    IN  /\ \A end \in EndAuctionOutcomes(ledger[a].Seller, p, a) :
                               NothingWritten(end)
                        /\ reveal.err = "nil"
                        /\ bidKey \in DOMAIN reveal.ledger[a].RevealedBids)
    /\ [][\A a \in DOMAIN ledger, p \in Orgs :
             \A k \in HiddenLocalBidsAbove(ledger[a], p) :
                 (/\ EndFailsForHigherBid(a, p)
                  /\ \A h \in HiddenLocalBidsAbove(ledger[a], p) :
                        PrivateBid(ledger[a], h).Price <= PrivateBid(ledger[a], k).Price
                  /\ a \in DOMAIN ledger'
                  /\ ledger'[a].Status = "closed"
                  /\ k \in DOMAIN ledger'[a].RevealedBids)
                 => \A end \in EndAuctionOutcomes(ledger[a].Seller, p, a)' :
                        /\ end.err = "nil"
                        /\ end.ledger[a].Status = "ended"
                        /\ end.ledger[a].Winner = ledger'[a].RevealedBids[k].Bidder
                        /\ end.ledger[a].Price = ledger'[a].RevealedBids[k].Price]_vars

(***************************************************************************)
(* C20: in every reachable state the bidder of every bid in revealedBids   *)
(* is the seller of the auction, and the stored winner is empty or the     *)
(* seller.                                                                 *)
(***************************************************************************)
C20_RevealedBidderIsSeller ==
    \A a \in DOMAIN ledger :
        /\ \A k \in DOMAIN ledger[a].RevealedBids :
              ledger[a].RevealedBids[k].Bidder = ledger[a].Seller
        /\ ledger[a].Winner \in {"", ledger[a].Seller}

\* an ended auction with a revealed bid and the seller as winner, while a
\* client that is not the seller has a commitment in it that was not revealed
C20_SellerWonOverOtherBidder ==
    \E a \in DOMAIN ledger :
        /\ ledger[a].Status = "ended"
        /\ DOMAIN ledger[a].RevealedBids # {}
        /\ ledger[a].Winner = ledger[a].Seller
        /\ \E k \in Unrevealed(ledger[a]) :
              /\ HasPrivateBid(ledger[a], k)
              /\ PrivateBid(ledger[a], k).Bidder # ledger[a].Seller

=============================================================================
